---- MODULE Spec2Model ----
(***************************************************************************)
(* Model of scripts/feature_analysis.py: the pipeline                      *)
(*   analyze_product_features -> extract_features_from_reviews             *)
(*     -> analyze_feature_sentiment (analyze_context_sentiment)            *)
(*     -> create_feature_visualizations -> generate_summary_report.        *)
(* Review texts are strings; str methods and the regular expressions are  *)
(* modelled character by character.  Python floats are IEEE binary64      *)
(* values, modelled exactly as dyadic numbers with a 53-bit significand.  *)
(***************************************************************************)
EXTENDS Integers, Sequences, FiniteSets, TLC

VARIABLES pc, df, review_col, rating_col, assigned, features,
          feature_analysis, entered, files

vars == <<pc, df, review_col, rating_col, assigned, features,
          feature_analysis, entered, files>>

(***************************************************************************)
(* Generic sequence helpers                                                *)
(***************************************************************************)
Range(s) == {s[i] : i \in 1..Len(s)}

RECURSIVE Flatten(_)
Flatten(ss) == IF ss = <<>> THEN <<>> ELSE Head(ss) \o Flatten(Tail(ss))

RECURSIVE SumSeq(_)
SumSeq(s) == IF s = <<>> THEN 0 ELSE Head(s) + SumSeq(Tail(s))

CountOf(s, x) == Cardinality({i \in 1..Len(s) : s[i] = x})

Max(a, b) == IF a >= b THEN a ELSE b
Min(a, b) == IF a <= b THEN a ELSE b

(***************************************************************************)
(* Python str operations                                                   *)
(***************************************************************************)
CharAt(s, i) == SubSeq(s, i, i)

UpperCase == <<"A","B","C","D","E","F","G","H","I","J","K","L","M",
               "N","O","P","Q","R","S","T","U","V","W","X","Y","Z">>
LowerCase == <<"a","b","c","d","e","f","g","h","i","j","k","l","m",
               "n","o","p","q","r","s","t","u","v","w","x","y","z">>
Digits == {"0","1","2","3","4","5","6","7","8","9"}

\* str.lower() of one character
LowerChar(c) ==
    IF \E k \in 1..26 : UpperCase[k] = c
    THEN LowerCase[CHOOSE k \in 1..26 : UpperCase[k] = c]
    ELSE c

\* str.lower()
RECURSIVE lower(_)
lower(s) ==
    IF Len(s) <= 1 THEN LowerChar(s)
    ELSE LET h == Len(s) \div 2
         IN lower(SubSeq(s, 1, h)) \o lower(SubSeq(s, h + 1, Len(s)))

\* the characters str.split() and str.strip() treat as whitespace, and \s
WhiteSpace == {" ", "\t", "\n", "\r", "\f"}

\* sub in s
Contains(s, sub) ==
    \E i \in 1..(Len(s) - Len(sub) + 1) : SubSeq(s, i, i + Len(sub) - 1) = sub

\* s.find(sub), 0-based, -1 when absent
find(s, sub) ==
    IF Contains(s, sub)
    THEN (CHOOSE i \in 1..(Len(s) - Len(sub) + 1) :
             /\ SubSeq(s, i, i + Len(sub) - 1) = sub
             /\ \A j \in 1..(i - 1) : SubSeq(s, j, j + Len(sub) - 1) # sub) - 1
    ELSE -1

\* s[a:b] for 0 <= a <= b <= len(s)
Slice(s, a, b) == SubSeq(s, a + 1, b)

\* str.strip()
strip(s) ==
    LET keep == {i \in 1..Len(s) : CharAt(s, i) \notin WhiteSpace}
    IN IF keep = {} THEN ""
       ELSE SubSeq(s, CHOOSE i \in keep : \A j \in keep : i <= j,
                      CHOOSE i \in keep : \A j \in keep : i >= j)

\* str.split(): the maximal runs of non-whitespace characters, in order
split(s) ==
    LET IsSpace(i) == i < 1 \/ i > Len(s) \/ CharAt(s, i) \in WhiteSpace
        starts == {i \in 1..Len(s) : ~IsSpace(i) /\ IsSpace(i - 1)}
        ends   == {i \in 1..Len(s) : ~IsSpace(i) /\ IsSpace(i + 1)}
        Nth(S, k) == CHOOSE i \in S : Cardinality({j \in S : j < i}) = k - 1
    IN [k \in 1..Cardinality(starts) |-> SubSeq(s, Nth(starts, k), Nth(ends, k))]

(***************************************************************************)
(* Regular expressions of the script                                       *)
(***************************************************************************)
\* \w
WordChars == Range(UpperCase) \cup Range(LowerCase) \cup Digits \cup {"_"}

IsWordAt(s, k) == k >= 1 /\ k <= Len(s) /\ CharAt(s, k) \in WordChars

\* \b between characters k and k+1 of s (k = 0: the start, k = Len(s): the end)
WordBoundary(s, k) == IsWordAt(s, k) # IsWordAt(s, k + 1)

\* An alternative is a sequence of literal pieces; between two pieces stands
\* one "." (any character but a newline).  AltLen is the length it matches.
AltLen(alt) == SumSeq([k \in 1..Len(alt) |-> Len(alt[k])]) + Len(alt) - 1

RECURSIVE AltMatchesAt(_, _, _)
AltMatchesAt(s, i, alt) ==
    LET p == Head(alt) IN
    /\ i + Len(p) - 1 <= Len(s)
    /\ SubSeq(s, i, i + Len(p) - 1) = p
    /\ \/ Len(alt) = 1
       \/ /\ i + Len(p) <= Len(s)
          /\ CharAt(s, i + Len(p)) # "\n"
          /\ AltMatchesAt(s, i + Len(p) + 1, Tail(alt))

\* re.search(r'\b(a1|a2|...)\b', s) is not None
re_search(alts, s) ==
    \E i \in 1..Len(s) : \E a \in 1..Len(alts) :
        /\ AltMatchesAt(s, i, alts[a])
        /\ WordBoundary(s, i - 1)
        /\ WordBoundary(s, i - 1 + AltLen(alts[a]))

(***************************************************************************)
(* extract_features_from_reviews                                           *)
(***************************************************************************)
Lit(w) == <<w>>

\* feature_patterns, in the dict's insertion order
feature_patterns == <<
    [name |-> "battery",     alts |-> <<Lit("battery"), Lit("power"), Lit("charging"), Lit("charge")>>],
    [name |-> "camera",      alts |-> <<Lit("camera"), Lit("photo"), Lit("picture"), Lit("image")>>],
    [name |-> "display",     alts |-> <<Lit("screen"), Lit("display"), Lit("monitor")>>],
    [name |-> "audio",       alts |-> <<Lit("sound"), Lit("audio"), Lit("speaker"), Lit("music"), Lit("volume")>>],
    [name |-> "design",      alts |-> <<Lit("design"), Lit("look"), Lit("appearance"), Lit("style"), Lit("color")>>],
    [name |-> "performance", alts |-> <<Lit("performance"), Lit("speed"), Lit("fast"), Lit("slow"), Lit("lag")>>],
    [name |-> "price",       alts |-> <<Lit("price"), Lit("cost"), Lit("value"), Lit("expensive"), Lit("cheap"), Lit("affordable")>>],
    [name |-> "size",        alts |-> <<Lit("size"), Lit("weight"), Lit("portable"), Lit("compact"), Lit("heavy")>>],
    [name |-> "quality",     alts |-> <<Lit("quality"), Lit("build"), Lit("material"), Lit("durability")>>],
    [name |-> "usability",   alts |-> <<Lit("easy"), Lit("difficult"), <<"user", "friendly">>, Lit("interface"), Lit("setup")>>],
    [name |-> "delivery",    alts |-> <<Lit("delivery"), Lit("shipping"), Lit("packaging"), Lit("arrived")>>],
    [name |-> "service",     alts |-> <<Lit("service"), Lit("support"), Lit("help"), Lit("customer")>>] >>

FixedLabels == {feature_patterns[k].name : k \in 1..Len(feature_patterns)}

PatternOf(L) == feature_patterns[CHOOSE k \in 1..Len(feature_patterns) :
                                    feature_patterns[k].name = L].alts

\* the terms that make a bigram qualify, and the adjectives re.sub removes
bigram_terms == <<"good", "bad", "great", "poor">>
sub_adjectives == <<"good", "bad", "great", "poor", "excellent", "terrible">>

\* the end (exclusive, 1-based) of the greedy \s* starting at position j
RECURSIVE SkipSpace(_, _)
SkipSpace(s, j) ==
    IF j <= Len(s) /\ CharAt(s, j) \in WhiteSpace THEN SkipSpace(s, j + 1) ELSE j

AdjectiveAt(s, i) ==
    {a \in 1..Len(sub_adjectives) :
        /\ i + Len(sub_adjectives[a]) - 1 <= Len(s)
        /\ SubSeq(s, i, i + Len(sub_adjectives[a]) - 1) = sub_adjectives[a]}

\* re.sub(r'\b(good|bad|great|poor|excellent|terrible)\s*', '', s): every
\* non-overlapping match, leftmost first, is removed
RECURSIVE SubFrom(_, _)
SubFrom(s, i) ==
    IF i > Len(s) THEN ""
    ELSE IF WordBoundary(s, i - 1) /\ AdjectiveAt(s, i) # {}
         THEN LET a == CHOOSE x \in AdjectiveAt(s, i) :
                           \A y \in AdjectiveAt(s, i) : x <= y
              IN SubFrom(s, SkipSpace(s, i + Len(sub_adjectives[a])))
         ELSE CharAt(s, i) \o SubFrom(s, i + 1)
re_sub_adjectives(s) == SubFrom(s, 1)

\* lines 85-87: the labels whose pattern matches, in pattern order
RECURSIVE PatternLabels(_, _)
PatternLabels(review_lower, k) ==
    IF k > Len(feature_patterns) THEN <<>>
    ELSE (IF re_search(feature_patterns[k].alts, review_lower)
          THEN <<feature_patterns[k].name>> ELSE <<>>)
         \o PatternLabels(review_lower, k + 1)

\* the bigram loop without the test that the label is not yet in the list
RECURSIVE BigramLabelsRepeating(_, _, _)
BigramLabelsRepeating(words, i, review_features) ==
    IF i > Len(words) - 1 THEN review_features
    ELSE LET bigram == words[i] \o " " \o words[i + 1]
             feature == strip(re_sub_adjectives(bigram))
         IN IF /\ \E t \in 1..Len(bigram_terms) : Contains(bigram, bigram_terms[t])
               /\ Len(feature) > 2
            THEN BigramLabelsRepeating(words, i + 1, Append(review_features, feature))
            ELSE BigramLabelsRepeating(words, i + 1, review_features)

\* lines 91-97: the loop over the adjacent word pairs, from pair i on
RECURSIVE BigramLabels(_, _, _)
BigramLabels(words, i, review_features) ==
    IF i > Len(words) - 1 THEN review_features
    ELSE LET bigram == words[i] \o " " \o words[i + 1]
             feature == strip(re_sub_adjectives(bigram))
         IN IF /\ \E t \in 1..Len(bigram_terms) : Contains(bigram, bigram_terms[t])
               /\ Len(feature) > 2
               /\ feature \notin Range(review_features)
            THEN BigramLabels(words, i + 1, Append(review_features, feature))
            ELSE BigramLabels(words, i + 1, review_features)

\* review_features computed on the text as written, not lowercased
ReviewFeaturesCaseSensitive(review) ==
    BigramLabels(split(review), 1, PatternLabels(review, 1))

\* lines 81-97: review_features of one non-missing review
ReviewFeatures(review) ==
    LET review_lower == lower(review)
    IN BigramLabels(split(review_lower), 1, PatternLabels(review_lower, 1))

(***************************************************************************)
(* analyze_context_sentiment                                               *)
(***************************************************************************)
positive_words == <<"good", "great", "excellent", "amazing", "love", "perfect",
                    "awesome", "fantastic", "best">>
negative_words == <<"bad", "terrible", "awful", "hate", "worst", "horrible",
                    "disappointing", "poor", "worst">>

ContextRadius == 50

\* lines 165-167: the window around the first occurrence
Context(text, feature) ==
    LET feature_index == find(text, feature)
        context_start == Max(0, feature_index - ContextRadius)
        context_end   == Min(Len(text), feature_index + Len(feature) + ContextRadius)
    IN Slice(text, context_start, context_end)

\* sum(1 for word in words if word in context)
HitCount(words, context) ==
    Cardinality({k \in 1..Len(words) : Contains(context, words[k])})

\* the classifier with the negative count taken from the positive list
analyze_context_sentiment_one_list(text, feature) ==
    IF find(text, feature) = -1 THEN "neutral"
    ELSE LET context == Context(text, feature)
             positive_count == HitCount(positive_words, context)
             negative_count == HitCount(positive_words, context)
         IN IF positive_count > negative_count THEN "positive"
            ELSE IF negative_count > positive_count THEN "negative"
            ELSE "neutral"

analyze_context_sentiment(text, feature) ==
    IF find(text, feature) = -1 THEN "neutral"
    ELSE LET context == Context(text, feature)
             positive_count == HitCount(positive_words, context)
             negative_count == HitCount(negative_words, context)
         IN IF positive_count > negative_count THEN "positive"
            ELSE IF negative_count > positive_count THEN "negative"
            ELSE "neutral"

(***************************************************************************)
(* Python float: IEEE 754 binary64, round to nearest, ties to even.        *)
(* A value is (-1)^neg * mag * 2^exp, mag a bit sequence (most             *)
(* significant bit first, no leading zero and no trailing zero), so that   *)
(* equal values are equal records.  Exponent range is not modelled: every *)
(* value of the script lies far inside it.                                 *)
(***************************************************************************)
SignificandBits == 53

Zeros(n) == [k \in 1..n |-> 0]

\* the positions of the one bits
Ones(b) == {k \in 1..Len(b) : b[k] = 1}

FZero == [neg |-> FALSE, mag |-> <<>>, exp |-> 0]

\* the canonical record of (-1)^neg * bits * 2^exp
Canon(neg, bits, exp) ==
    LET ones  == Ones(bits)
        first == CHOOSE k \in ones : \A j \in ones : k <= j
        last  == CHOOSE k \in ones : \A j \in ones : k >= j
    IN IF ones = {} THEN FZero
       ELSE [neg |-> neg, mag |-> SubSeq(bits, first, last),
             exp |-> exp + Len(bits) - last]

RECURSIVE NatBits(_)
NatBits(n) == IF n = 0 THEN <<>> ELSE Append(NatBits(n \div 2), n % 2)

\* float(n) for an integer n of small magnitude (exact)
FromInt(n) == IF n >= 0 THEN Canon(FALSE, NatBits(n), 0) ELSE Canon(TRUE, NatBits(-n), 0)

\* x + y + c for bit sequences of equal length n: n + 1 bits, the carry
\* first.  The low half is added first and its carry goes into the high half.
RECURSIVE AddBits(_, _, _)
AddBits(x, y, c) ==
    LET n == Len(x) IN
    IF n = 0 THEN <<c>>
    ELSE IF n = 1 THEN <<(x[1] + y[1] + c) \div 2, (x[1] + y[1] + c) % 2>>
    ELSE LET h  == n \div 2
             lo == AddBits(SubSeq(x, h + 1, n), SubSeq(y, h + 1, n), c)
             hi == IF lo[1] = 1 THEN AddBits(SubSeq(x, 1, h), SubSeq(y, 1, h), 1)
                   ELSE AddBits(SubSeq(x, 1, h), SubSeq(y, 1, h), 0)
         IN hi \o Tail(lo)

\* x - y - c for bit sequences of equal length n: n + 1 bits, the borrow first
RECURSIVE SubBorrow(_, _, _)
SubBorrow(x, y, c) ==
    LET n == Len(x) IN
    IF n = 0 THEN <<c>>
    ELSE IF n = 1 THEN <<IF x[1] - y[1] - c < 0 THEN 1 ELSE 0, (x[1] - y[1] - c + 2) % 2>>
    ELSE LET h  == n \div 2
             lo == SubBorrow(SubSeq(x, h + 1, n), SubSeq(y, h + 1, n), c)
             hi == IF lo[1] = 1 THEN SubBorrow(SubSeq(x, 1, h), SubSeq(y, 1, h), 1)
                   ELSE SubBorrow(SubSeq(x, 1, h), SubSeq(y, 1, h), 0)
         IN hi \o Tail(lo)

\* x - y for x >= y
SubBits(x, y, c) == Tail(SubBorrow(x, y, c))

\* x < y for bit sequences of equal length
BitsLess(x, y) ==
    \E k \in 1..Len(x) : x[k] < y[k] /\ \A j \in 1..(k - 1) : x[j] = y[j]

\* rounding of an exact value to the nearest value with 53 significant bits
Round(d) ==
    LET n == Len(d.mag) IN
    IF n <= SignificandBits THEN d
    ELSE LET kept   == SubSeq(d.mag, 1, SignificandBits)
             guard  == d.mag[SignificandBits + 1]
             sticky == \E k \in (SignificandBits + 2)..n : d.mag[k] = 1
             up     == guard = 1 /\ (sticky \/ kept[SignificandBits] = 1)
             r      == IF up THEN AddBits(kept, Zeros(SignificandBits), 1) ELSE kept
         IN Canon(d.neg, r, d.exp + n - SignificandBits)

\* the exact sum of two values
ExactAdd(a, b) ==
    LET e  == Min(a.exp, b.exp)
        ma == a.mag \o Zeros(a.exp - e)
        mb == b.mag \o Zeros(b.exp - e)
        w  == Max(Len(ma), Len(mb))
        xa == Zeros(w - Len(ma)) \o ma
        xb == Zeros(w - Len(mb)) \o mb
    IN IF a.neg = b.neg THEN Canon(a.neg, AddBits(xa, xb, 0), e)
       ELSE IF BitsLess(xa, xb) THEN Canon(b.neg, SubBits(xb, xa, 0), e)
       ELSE Canon(a.neg, SubBits(xa, xb, 0), e)

FNeg(a) == IF a = FZero THEN a ELSE [a EXCEPT !.neg = ~a.neg]

\* a + b and a - b of two floats
FAdd(a, b) == Round(ExactAdd(a, b))
FSub(a, b) == Round(ExactAdd(a, FNeg(b)))

\* a <= b
FLeq(a, b) == LET d == ExactAdd(a, FNeg(b)) IN d = FZero \/ d.neg

\* 2^k mod b
RECURSIVE Pow2Mod(_, _)
Pow2Mod(k, b) ==
    IF k = 0 THEN 1 % b
    ELSE LET h == Pow2Mod(k \div 2, b)
         IN (((h * h) % b) * (IF k % 2 = 1 THEN 2 ELSE 1)) % b

\* a / b, correctly rounded, for integers a >= 0 and 0 < b < 2^15: long
\* division.  Rem(k) is the remainder left after k quotient bits behind the
\* binary point; the quotient is cut where 53 significant bits are known
\* (or the division is exact) and the remainder decides the rounding.
TrueDiv(a, b) ==
    LET ip      == NatBits(a \div b)
        Rem(k)  == ((a % b) * Pow2Mod(k, b)) % b
        Bit(k)  == IF 2 * Rem(k - 1) >= b THEN 1 ELSE 0
        lead    == IF ip # <<>> THEN 0
                   ELSE CHOOSE k \in 1..32 : Bit(k) = 1 /\ \A j \in 1..(k - 1) : Bit(j) = 0
        frac    == IF ip # <<>> THEN Max(0, SignificandBits - Len(ip))
                   ELSE lead + SignificandBits - 1
        bits    == ip \o [k \in 1..frac |-> Bit(k)]
        r       == Rem(frac)
        up      == 2 * r > b \/ (2 * r = b /\ bits[Len(bits)] = 1)
    IN IF a = 0 THEN FZero
       ELSE Round(Canon(FALSE, IF up THEN AddBits(bits, Zeros(Len(bits)), 1) ELSE bits, -frac))

(***************************************************************************)
(* The review table (pandas DataFrame): column names and rows of cells.    *)
(* A cell is NA (a missing value, NaN) or holds a string or a number.       *)
(***************************************************************************)
NA == [na |-> TRUE]
Str(s) == [na |-> FALSE, str |-> s]
Num(n) == [na |-> FALSE, num |-> n]

\* pd.isna / pd.notna
isna(cell) == cell.na
notna(cell) == ~cell.na

\* the positions of S in increasing order
SortedSeq(S) ==
    [k \in 1..Cardinality(S) |-> CHOOSE i \in S : Cardinality({j \in S : j < i}) = k - 1]

ColIndex(frame, col) ==
    CHOOSE j \in 1..Len(frame.columns) :
        /\ frame.columns[j] = col
        /\ \A k \in 1..(j - 1) : frame.columns[k] # col

\* df.loc[idx, col], idx the 0-based row label
loc(frame, idx, col) == frame.rows[idx + 1][ColIndex(frame, col)]

\* df[col].dropna().items(): the (idx, value) pairs of the non-missing cells
dropna_items(frame, col) ==
    LET keep == SortedSeq({i \in 1..Len(frame.rows) : notna(frame.rows[i][ColIndex(frame, col)])})
    IN [k \in 1..Len(keep) |->
           [idx |-> keep[k] - 1, value |-> frame.rows[keep[k]][ColIndex(frame, col)].str]]

\* df[col].dropna(): the values alone
dropna(frame, col) ==
    LET items == dropna_items(frame, col) IN [k \in 1..Len(items) |-> items[k].value]

\* lines 24-25 and 35-36: the columns whose lowercased name contains a keyword
review_keywords == <<"review", "text", "comment", "feedback">>
rating_keywords == <<"rating", "score", "stars">>

MatchingColumns(frame, keywords) ==
    LET Test(col) == \E k \in 1..Len(keywords) : Contains(lower(col), keywords[k])
    IN SelectSeq(frame.columns, Test)

\* a keyword list that also takes a title column for review text
review_columns_with_title(frame) == MatchingColumns(frame, Append(review_keywords, "title"))

review_columns(frame) == MatchingColumns(frame, review_keywords)
rating_columns(frame) == MatchingColumns(frame, rating_keywords)

\* rating_col is None
None == "<None>"

(***************************************************************************)
(* collections.Counter: the labels in first-seen order with their counts   *)
(***************************************************************************)
Counter(items) ==
    LET firsts == SortedSeq({i \in 1..Len(items) : \A j \in 1..(i - 1) : items[j] # items[i]})
    IN [k \in 1..Len(firsts) |->
           [label |-> items[firsts[k]], count |-> CountOf(items, items[firsts[k]])]]

Labels(counter) == {counter[k].label : k \in 1..Len(counter)}

\* counter[label], 0 for a label that is not a key
CountIn(counter, label) ==
    IF label \in Labels(counter)
    THEN counter[CHOOSE k \in 1..Len(counter) : counter[k].label = label].count
    ELSE 0

\* Counter.most_common(n): sorted(items, key=count, reverse=True)[:n]; the
\* sort is stable, so entries of equal count keep their first-seen order
\* a selection that prefers, among equal counts, the label seen later
most_common_last_seen(counter, n) ==
    LET Before(j, i) == \/ counter[j].count > counter[i].count
                        \/ counter[j].count = counter[i].count /\ j > i
        Rank(i) == Cardinality({j \in 1..Len(counter) : Before(j, i)}) + 1
    IN [k \in 1..Min(n, Len(counter)) |->
           counter[CHOOSE i \in 1..Len(counter) : Rank(i) = k]]

most_common(counter, n) ==
    LET Before(j, i) == \/ counter[j].count > counter[i].count
                        \/ counter[j].count = counter[i].count /\ j < i
        Rank(i) == Cardinality({j \in 1..Len(counter) : Before(j, i)}) + 1
    IN [k \in 1..Min(n, Len(counter)) |->
           counter[CHOOSE i \in 1..Len(counter) : Rank(i) = k]]

(***************************************************************************)
(* The inputs: the CSV files the pipeline is run on                        *)
(***************************************************************************)
\* the longest table built from the pool
MaxRows == 3

\* rows a review file is built from: a praising review, a critical one, a
\* long one that names many features, a row without text, a review that
\* names no feature
Pool == <<
    [review |-> Str("Great camera and battery life."), rating |-> Num(5)],
    [review |-> Str("Bad camera, terrible battery."), rating |-> Num(2)],
    [review |-> Str("Worst cameras but good screen, easy setup, good sound, poor price, bad size, great speed, good build, poor style, bad shipping, great support"),
     rating |-> NA],
    [review |-> NA, rating |-> Num(4)],
    [review |-> Str("Works fine."), rating |-> Num(3)] >>

\* lines 328-337: sample_data, the rows of sample_reviews.csv
sample_data == <<
    [review |-> Str("Great camera quality and excellent battery life. Love the design!"), rating |-> Num(5)],
    [review |-> Str("Poor audio quality but good screen display. Price is reasonable."), rating |-> Num(3)],
    [review |-> Str("Amazing performance and fast charging. Camera could be better."), rating |-> Num(4)],
    [review |-> Str("Terrible battery life and slow performance. Good build quality though."), rating |-> Num(2)],
    [review |-> Str("Perfect size and weight. Great value for money. Audio is fantastic!"), rating |-> Num(5)] >>

\* a file of four praising reviews and a critical one
skewed_data == <<Pool[1], Pool[1], Pool[1], Pool[1], Pool[2]>>

\* the column layouts of the files: what each column is called and holds
Filler == "n/a"
Layouts == {
    <<[name |-> "review", kind |-> "review"], [name |-> "rating", kind |-> "rating"]>>,
    <<[name |-> "id", kind |-> "id"], [name |-> "Comments", kind |-> "review"],
      [name |-> "feedback", kind |-> "filler"]>>,
    <<[name |-> "id", kind |-> "id"], [name |-> "title", kind |-> "review"],
      [name |-> "Stars", kind |-> "rating"]>> }

SampleLayout == <<[name |-> "review", kind |-> "review"], [name |-> "rating", kind |-> "rating"]>>

\* pd.read_csv of a file with these columns and rows
Frame(layout, rows) ==
    [columns |-> [j \in 1..Len(layout) |-> layout[j].name],
     rows    |-> [i \in 1..Len(rows) |-> [j \in 1..Len(layout) |->
                    CASE layout[j].kind = "review" -> rows[i].review
                      [] layout[j].kind = "rating" -> rows[i].rating
                      [] layout[j].kind = "id"     -> Num(i)
                      [] OTHER                     -> Str(Filler)]]]

RowSeqs == UNION {[1..n -> Range(Pool)] : n \in 0..MaxRows}

Tables == {Frame(layout, rows) : layout \in Layouts, rows \in RowSeqs}
              \cup {Frame(SampleLayout, sample_data), Frame(SampleLayout, skewed_data)}

AllRows == Range(Pool) \cup Range(sample_data)
MaxTableRows == Max(MaxRows, Max(Len(sample_data), Len(skewed_data)))
Corpus == {r.review.str : r \in {x \in AllRows : notna(x.review)}} \cup {Filler}
Ratings == {r.rating.num : r \in {x \in AllRows : notna(x.rating)}}
MaxRating == CHOOSE m \in Ratings : \A r \in Ratings : r <= m

(***************************************************************************)
(* The text functions, tabulated over the texts the files can hold         *)
(***************************************************************************)
ReviewFeaturesOf == [t \in Corpus |-> ReviewFeatures(t)]

CorpusLabels == UNION {Range(ReviewFeaturesOf[t]) : t \in Corpus}

\* lines 123-134 for one review and one feature: the sentiment appended to
\* feature_sentiments, or NoMention when the feature is not in the review
NoMention == "<no mention>"
Mention(review, feature) ==
    LET review_lower == lower(review)
    IN IF Contains(review_lower, feature)
       THEN analyze_context_sentiment(review_lower, feature)
       ELSE NoMention

MentionOf == [t \in Corpus |-> [f \in CorpusLabels |-> Mention(t, f)]]

\* lines 77-105
PerReviewFeatures(reviews) == [k \in 1..Len(reviews) |-> ReviewFeaturesOf[reviews[k]]]

extract_features_from_reviews(reviews) == Counter(Flatten(PerReviewFeatures(reviews)))

(***************************************************************************)
(* analyze_feature_sentiment                                               *)
(***************************************************************************)
TopN == 20

FOne == FromInt(1)

\* a ratio whose empty case yields 1 instead of 0
RatioEmptyIsOne(k, n) == IF n = 0 THEN FromInt(1) ELSE TrueDiv(k, n)

\* lines 138-139: count / len(feature_sentiments) if feature_sentiments else 0
Ratio(k, n) == IF n = 0 THEN FZero ELSE TrueDiv(k, n)

\* line 146: 1 - positive_ratio - negative_ratio
Neutral(positive_ratio, negative_ratio) == FSub(FSub(FOne, positive_ratio), negative_ratio)

\* line 137: np.mean(feature_ratings) if feature_ratings else 0; the sum of
\* the ratings is an integer, hence exact
\* the mean taken with floor division
MeanFloor(total, n) == IF n = 0 THEN FZero ELSE FromInt(total \div n)

Mean(total, n) == IF n = 0 THEN FZero ELSE TrueDiv(total, n)

\* the three, tabulated over the list lengths a table allows
RatioOf == [n \in 0..MaxTableRows |-> [k \in 0..n |-> Ratio(k, n)]]
NeutralOf == [n \in 0..MaxTableRows |-> [k \in 0..n |-> [j \in 0..(n - k) |->
                 Neutral(RatioOf[n][k], RatioOf[n][j])]]]
MeanOf == [n \in 0..MaxTableRows |-> [t \in 0..(MaxRating * n) |-> Mean(t, n)]]

\* lines 116-134: the reviews that mention the feature, in row order
Mentions(frame, col, feature) ==
    LET items == dropna_items(frame, col)
        hits  == SortedSeq({k \in 1..Len(items) : MentionOf[items[k].value][feature] # NoMention})
    IN [h \in 1..Len(hits) |-> items[hits[h]]]

\* lines 127-130: the ratings collected for the mentions
FeatureRatings(frame, rcol, mentions) ==
    IF rcol = None THEN <<>>
    ELSE LET rated == SortedSeq({h \in 1..Len(mentions) : notna(loc(frame, mentions[h].idx, rcol))})
         IN [r \in 1..Len(rated) |-> loc(frame, mentions[rated[r]].idx, rcol).num]

\* the sentiment appended only inside the branch that found a rating
FeatureSentimentsWhenRated(frame, rcol, mentions, feature) ==
    IF rcol = None THEN <<>>
    ELSE LET rated == SortedSeq({h \in 1..Len(mentions) : notna(loc(frame, mentions[h].idx, rcol))})
         IN [r \in 1..Len(rated) |-> MentionOf[mentions[rated[r]].value][feature]]

\* lines 132-134: the sentiment of every mention, rated or not
FeatureSentiments(frame, rcol, mentions, feature) ==
    [h \in 1..Len(mentions) |-> MentionOf[mentions[h].value][feature]]

\* lines 116-148: the record of one feature
FeatureRecord(frame, col, rcol, feature, count) ==
    LET mentions           == Mentions(frame, col, feature)
        feature_ratings    == FeatureRatings(frame, rcol, mentions)
        feature_sentiments == FeatureSentiments(frame, rcol, mentions, feature)
        n   == Len(feature_sentiments)
        pos == CountOf(feature_sentiments, "positive")
        neg == CountOf(feature_sentiments, "negative")
    IN [feature            |-> feature,
        count              |-> count,
        avg_rating         |-> MeanOf[Len(feature_ratings)][SumSeq(feature_ratings)],
        positive_ratio     |-> RatioOf[n][pos],
        negative_ratio     |-> RatioOf[n][neg],
        neutral_ratio      |-> NeutralOf[n][pos][neg],
        total_mentions     |-> Len(feature_ratings),
        feature_ratings    |-> feature_ratings,
        feature_sentiments |-> feature_sentiments]

\* lines 113-150: the records in insertion order (the labels are distinct)
analyze_feature_sentiment(frame, col, rcol, counter) ==
    LET top == most_common(counter, TopN)
    IN [k \in 1..Len(top) |-> FeatureRecord(frame, col, rcol, top[k].label, top[k].count)]

(***************************************************************************)
(* analyze_product_features: the pipeline, one action per stage            *)
(***************************************************************************)
Dashboard == "feature_analysis_dashboard.png"
WordCloudFile == "features_wordcloud.png"
ReportFile == "feature_analysis_report.txt"

Init ==
    /\ pc = "start"
    /\ df = [columns |-> <<>>, rows |-> <<>>]
    /\ review_col = None
    /\ rating_col = None
    /\ assigned = <<>>
    /\ features = <<>>
    /\ feature_analysis = <<>>
    /\ entered = {}
    /\ files = {}

\* lines 16-18: pd.read_csv succeeds
LoadCSV ==
    /\ pc = "start"
    /\ \E t \in Tables : df' = t
    /\ pc' = "loaded"
    /\ UNCHANGED <<review_col, rating_col, assigned, features, feature_analysis, entered, files>>

\* lines 19-21: pd.read_csv raises; the error is printed and the function returns
LoadFails ==
    /\ pc = "start"
    /\ pc' = "returned"
    /\ UNCHANGED <<df, review_col, rating_col, assigned, features, feature_analysis, entered, files>>

\* lines 24-37: the review column, or the early return; the rating column
FindColumns ==
    /\ pc = "loaded"
    /\ IF review_columns(df) = <<>>
       THEN /\ pc' = "returned"
            /\ UNCHANGED <<review_col, rating_col>>
       ELSE /\ pc' = "columns"
            /\ review_col' = review_columns(df)[1]
            /\ rating_col' = IF rating_columns(df) # <<>> THEN rating_columns(df)[1] ELSE None
    /\ UNCHANGED <<df, assigned, features, feature_analysis, entered, files>>

\* line 40
Extract ==
    /\ pc = "columns"
    /\ pc' = "extracted"
    /\ assigned' = PerReviewFeatures(dropna(df, review_col))
    /\ features' = extract_features_from_reviews(dropna(df, review_col))
    /\ entered' = entered \cup {"extract_features_from_reviews"}
    /\ UNCHANGED <<df, review_col, rating_col, feature_analysis, files>>

\* line 43
Analyze ==
    /\ pc = "extracted"
    /\ pc' = "analyzed"
    /\ feature_analysis' = analyze_feature_sentiment(df, review_col, rating_col, features)
    /\ entered' = entered \cup {"analyze_feature_sentiment"}
    /\ UNCHANGED <<df, review_col, rating_col, assigned, features, files>>

\* line 46, lines 179-248: the dashboard is saved; the word cloud only when
\* feature_text.strip() is not empty, that is when there is a feature
Visualize ==
    /\ pc = "analyzed"
    /\ pc' = "visualized"
    /\ entered' = entered \cup {"create_feature_visualizations"}
    /\ files' = files \cup {Dashboard}
                      \cup (IF feature_analysis # <<>> THEN {WordCloudFile} ELSE {})
    /\ UNCHANGED <<df, review_col, rating_col, assigned, features, feature_analysis>>

\* line 49, lines 250-314
Report ==
    /\ pc = "visualized"
    /\ pc' = "done"
    /\ entered' = entered \cup {"generate_summary_report"}
    /\ files' = files \cup {ReportFile}
    /\ UNCHANGED <<df, review_col, rating_col, assigned, features, feature_analysis>>

Next ==
    \/ LoadCSV
    \/ LoadFails
    \/ FindColumns
    \/ Extract
    \/ Analyze
    \/ Visualize
    \/ Report

Spec == Init /\ [][Next]_vars

(***************************************************************************)
(* Properties                                                              *)
(***************************************************************************)
Extracted == pc \in {"extracted", "analyzed", "visualized", "done"}
Analyzed == pc \in {"analyzed", "visualized", "done"}

Records == Range(feature_analysis)

\* a record for which at least one review was sentiment-classified
Classified(r) == r.feature_sentiments # <<>>

InUnitInterval(x) == FLeq(FZero, x) /\ FLeq(x, FOne)

\* C1: for every record with at least one classified review,
\* positive_ratio + negative_ratio + neutral_ratio == 1 and each of the
\* three ratios lies in [0, 1]
C1_RatiosSumToOne ==
    Analyzed =>
        \A r \in Records : Classified(r) =>
            /\ FAdd(FAdd(r.positive_ratio, r.negative_ratio), r.neutral_ratio) = FOne
            /\ InUnitInterval(r.positive_ratio)
            /\ InUnitInterval(r.negative_ratio)
            /\ InUnitInterval(r.neutral_ratio)

\* C2 as stated: a record with no classified review has all three ratios 0
C2_UnclassifiedAllZero ==
    Analyzed =>
        \A r \in Records : ~Classified(r) =>
            r.positive_ratio = FZero /\ r.negative_ratio = FZero /\ r.neutral_ratio = FZero

\* C2 amended: a record with no classified review has positive_ratio 0,
\* negative_ratio 0 and neutral_ratio 1
C2_UnclassifiedNeutralOne ==
    Analyzed =>
        \A r \in Records : ~Classified(r) =>
            r.positive_ratio = FZero /\ r.negative_ratio = FZero /\ r.neutral_ratio = FOne

\* the label display is recorded, counted through the word screen alone
C2_Witness ==
    /\ Analyzed
    /\ \E r \in Records : r.feature = "display" /\ r.count > 0 /\ ~Classified(r)

\* the non-missing reviews, in row order: assigned[k] belongs to Reviews[k]
Reviews == dropna(df, review_col)

\* the fixed labels that occur in a text as a substring, and those whose
\* pattern matches it (one of its words, delimited by word boundaries)
SubstringLabelsOf == [t \in Corpus |-> {L \in FixedLabels : Contains(lower(t), L)}]
PatternLabelsOf == [t \in Corpus |-> {L \in FixedLabels : re_search(PatternOf(L), lower(t))}]

\* what the reviews add to the count of a label
AddedTo(L) == SumSeq([k \in 1..Len(assigned) |-> CountOf(assigned[k], L)])

\* C3 as stated: every non-missing review whose lowercased text contains a
\* fixed label L as a substring is assigned L and adds 1 to the count of L
C3_SubstringAssignsLabel ==
    Extracted =>
        \A k \in 1..Len(Reviews) : \A L \in SubstringLabelsOf[Reviews[k]] :
            CountOf(assigned[k], L) = 1 /\ CountIn(features, L) = AddedTo(L)

\* C3 amended: every non-missing review whose lowercased text matches the
\* pattern of a fixed label L (contains one of the pattern's words between
\* word boundaries) is assigned L, and adds exactly 1 to the count of L
C3_PatternAssignsLabel ==
    Extracted =>
        \A k \in 1..Len(Reviews) : \A L \in PatternLabelsOf[Reviews[k]] :
            CountOf(assigned[k], L) = 1 /\ CountIn(features, L) = AddedTo(L)

\* a review is labelled display through the word screen, and contains
\* camera only inside cameras, which the camera pattern does not match
C3_Witness ==
    /\ Extracted
    /\ \E k \in 1..Len(Reviews) :
          /\ "display" \in PatternLabelsOf[Reviews[k]] \ SubstringLabelsOf[Reviews[k]]
          /\ "camera" \in SubstringLabelsOf[Reviews[k]] \ PatternLabelsOf[Reviews[k]]
          /\ CountOf(assigned[k], "display") = 1
          /\ CountIn(features, "display") >= 1

\* some column name, lowercased, contains one of the given keywords
HasColumnLike(frame, keywords) ==
    \E j \in 1..Len(frame.columns) : \E w \in keywords :
        Contains(lower(frame.columns[j]), w)
HasTextColumn(frame) == HasColumnLike(frame, {"review", "text", "comment", "feedback"})
HasRatingColumn(frame) == HasColumnLike(frame, {"rating", "score", "stars"})

AllStages == {"extract_features_from_reviews", "analyze_feature_sentiment",
              "create_feature_visualizations", "generate_summary_report"}

\* the stages that have been entered when the pipeline stands at a position
StagesBy(at) ==
    CASE at = "extracted"  -> {"extract_features_from_reviews"}
      [] at = "analyzed"   -> {"extract_features_from_reviews", "analyze_feature_sentiment"}
      [] at = "visualized" -> AllStages \ {"generate_summary_report"}
      [] at = "done"       -> AllStages
      [] OTHER             -> {}

\* C4: when loading fails or no column name contains review, text, comment
\* or feedback, the function returns, no later stage is entered and no file
\* is written; nothing follows the return
C4_AbortRunsNoStage ==
    /\ pc = "returned" => entered = {} /\ files = {} /\ ~ENABLED Next
    /\ (pc \notin {"start", "loaded"} /\ ~HasTextColumn(df)) =>
           pc = "returned" /\ entered = {} /\ files = {}

\* a loaded file without a review column made the function return
C4_Witness ==
    /\ pc = "returned"
    /\ df.rows # <<>>
    /\ ~HasTextColumn(df)
    /\ HasRatingColumn(df)

\* the loaded table has a text column and no rating column, and the columns
\* have been looked up
NoRatingCase ==
    /\ pc \notin {"start", "loaded"}
    /\ HasTextColumn(df)
    /\ ~HasRatingColumn(df)

\* the table with a rating column added
WithRatingColumn(frame, ratings) ==
    [columns |-> Append(frame.columns, "rating"),
     rows    |-> [i \in 1..Len(frame.rows) |-> Append(frame.rows[i], ratings[i])]]

RatingColumnsFor(frame) == [1..Len(frame.rows) -> {NA, Num(MaxRating)}]

SameCountsAndRatios(a, b) ==
    /\ Len(a) = Len(b)
    /\ \A k \in 1..Len(a) :
          /\ a[k].feature = b[k].feature
          /\ a[k].count = b[k].count
          /\ a[k].positive_ratio = b[k].positive_ratio
          /\ a[k].negative_ratio = b[k].negative_ratio
          /\ a[k].neutral_ratio = b[k].neutral_ratio

SampleFrame == Frame(SampleLayout, sample_data)

RecordOf(label) == CHOOSE r \in Records : r.feature = label

Half == [neg |-> FALSE, mag |-> <<1>>, exp |-> -1]
FourAndHalf == [neg |-> FALSE, mag |-> <<1, 0, 0, 1>>, exp |-> -1]
ThreeAndHalf == [neg |-> FALSE, mag |-> <<1, 1, 1>>, exp |-> -1]

\* C6 as stated: on the sample data the camera record collects the ratings
\* 5, 3 and 4 (avg_rating 4.0, total_mentions 3) and the battery record the
\* ratings 5 and 2 (avg_rating 3.5, total_mentions 2)
C6_SampleCameraThreeRatings ==
    (df = SampleFrame /\ pc = "analyzed") =>
        /\ RecordOf("camera").feature_ratings = <<5, 3, 4>>
        /\ RecordOf("camera").avg_rating = FromInt(4)
        /\ RecordOf("camera").total_mentions = 3
        /\ RecordOf("battery").feature_ratings = <<5, 2>>
        /\ RecordOf("battery").avg_rating = ThreeAndHalf
        /\ RecordOf("battery").total_mentions = 2

\* C6 amended: on the sample data the camera record collects the ratings 5
\* and 4 (avg_rating 4.5, total_mentions 2) and the battery record the
\* ratings 5 and 2 (avg_rating 3.5, total_mentions 2)
C6_SampleCameraTwoRatings ==
    (df = SampleFrame /\ pc = "analyzed") =>
        /\ \E r \in Records : r.feature = "camera"
        /\ \E r \in Records : r.feature = "battery"
        /\ RecordOf("camera").feature_ratings = <<5, 4>>
        /\ RecordOf("camera").avg_rating = FourAndHalf
        /\ RecordOf("camera").total_mentions = 2
        /\ RecordOf("battery").feature_ratings = <<5, 2>>
        /\ RecordOf("battery").avg_rating = ThreeAndHalf
        /\ RecordOf("battery").total_mentions = 2

\* extraction and aggregation have run on the sample data
C6_Witness ==
    /\ df = SampleFrame
    /\ pc = "analyzed"
    /\ rating_col = "rating"
    /\ \E r \in Records : r.feature = "camera" /\ r.total_mentions > 0

\* the non-missing reviews are the two of the example and the table has no
\* rating column
TwoReviewCase ==
    /\ Extracted
    /\ ~HasRatingColumn(df)
    /\ Reviews = <<"Great camera and battery life.", "Bad camera, terrible battery.">>

\* C7: for the reviews "Great camera and battery life." and "Bad camera,
\* terrible battery." without rating column the count table has 2 for
\* camera and 2 for battery, the first review is assigned camera once, and
\* the camera record has one positive and one negative classification, with
\* ratios 0.5, 0.5 and 0
C7_TwoReviewExample ==
    TwoReviewCase =>
        /\ CountIn(features, "camera") = 2
        /\ CountIn(features, "battery") = 2
        /\ CountOf(assigned[1], "camera") = 1
        /\ Analyzed =>
              /\ \E r \in Records : r.feature = "camera"
              /\ RecordOf("camera").feature_sentiments = <<"positive", "negative">>
              /\ RecordOf("camera").positive_ratio = Half
              /\ RecordOf("camera").negative_ratio = Half
              /\ RecordOf("camera").neutral_ratio = FZero

\* the two reviews have been extracted and aggregated
C7_Witness ==
    /\ TwoReviewCase
    /\ pc = "analyzed"
    /\ Len(df.rows) = 2
    /\ \E r \in Records : r.feature = "camera" /\ r.count = 2

\* the number of occurrences of a word in a text
Occurrences(text, word) ==
    Cardinality({i \in 0..(Len(text) - Len(word)) : Slice(text, i, i + Len(word)) = word})

\* the distinct words of a list, each once
DistinctWords(words) ==
    LET firsts == SortedSeq({i \in 1..Len(words) : \A j \in 1..(i - 1) : words[j] # words[i]})
    IN [k \in 1..Len(firsts) |-> words[firsts[k]]]

OccurrenceCount(words, window) ==
    LET distinct == DistinctWords(words)
    IN SumSeq([k \in 1..Len(distinct) |-> Occurrences(window, distinct[k])])

\* the reference of C8: the window of 50 characters around the first
\* occurrence, every occurrence of every distinct list word counted
Reference(text, feature) ==
    LET first  == find(text, feature)
        from   == IF first - 50 < 0 THEN 0 ELSE first - 50
        to     == IF first + Len(feature) + 50 > Len(text) THEN Len(text)
                  ELSE first + Len(feature) + 50
        window == Slice(text, from, to)
        P      == OccurrenceCount(positive_words, window)
        N      == OccurrenceCount(negative_words, window)
    IN IF P > N THEN "positive" ELSE IF N > P THEN "negative" ELSE "neutral"

ReferenceOf ==
    [t \in Corpus |-> [f \in {g \in CorpusLabels : Contains(lower(t), g)} |->
        Reference(lower(t), f)]]

\* C8 as stated: for every lowercased text and feature label occurring in
\* it, the classification recorded by analyze_context_sentiment is the one
\* of the reference that counts every occurrence of every distinct list word
C8_MatchesOccurrenceReference ==
    Analyzed =>
        \A r \in Records :
            LET mentions == Mentions(df, review_col, r.feature)
            IN r.feature_sentiments =
                   [h \in 1..Len(mentions) |-> ReferenceOf[mentions[h].value][r.feature]]

\* the position at which a label was first seen during extraction
FirstSeen(label) ==
    LET all == Flatten(assigned)
    IN CHOOSE i \in 1..Len(all) : all[i] = label /\ \A j \in 1..(i - 1) : all[j] # label

Recorded == {feature_analysis[k].feature : k \in 1..Len(feature_analysis)}

\* C9: there are min(20, number of distinct labels) records, for distinct
\* labels; a record's count is the label's count in the table; no
\* unrecorded label has a larger count than a recorded one; among labels of
\* equal count the one seen first is selected, and iterated, first
C9_TopTwentyFirstSeen ==
    Analyzed =>
        /\ Len(feature_analysis) = Min(20, Cardinality(Labels(features)))
        /\ Cardinality(Recorded) = Len(feature_analysis)
        /\ Recorded \subseteq Labels(features)
        /\ \A r \in Records : r.count = CountIn(features, r.feature)
        /\ \A r \in Records : \A L \in Labels(features) \ Recorded :
              /\ r.count >= CountIn(features, L)
              /\ r.count = CountIn(features, L) => FirstSeen(r.feature) < FirstSeen(L)
        /\ \A i \in 1..Len(feature_analysis) : \A j \in (i + 1)..Len(feature_analysis) :
              feature_analysis[i].count = feature_analysis[j].count =>
                  FirstSeen(feature_analysis[i].feature) < FirstSeen(feature_analysis[j].feature)

\* more than 20 labels were counted and the cut falls between two labels of
\* equal count
C9_Witness ==
    /\ Analyzed
    /\ Len(features) > 20
    /\ Len(feature_analysis) = 20
    /\ \E L \in Labels(features) \ Recorded :
          CountIn(features, L) = feature_analysis[20].count

\* the adjacent word pairs of a text that qualify for a synthetic label
QualifyingBigrams(text) ==
    LET words == split(lower(text))
    IN {i \in 1..(Len(words) - 1) :
          LET bigram == words[i] \o " " \o words[i + 1]
          IN /\ \E t \in Range(bigram_terms) : Contains(bigram, t)
             /\ Len(strip(re_sub_adjectives(bigram))) > 2}

NothingToExtractOf ==
    [t \in Corpus |-> PatternLabelsOf[t] = {} /\ QualifyingBigrams(t) = {}]

Without(seq, k) == [i \in 1..(Len(seq) - 1) |-> IF i < k THEN seq[i] ELSE seq[i + 1]]

\* C10: no review is assigned a label twice; the count of every label of
\* the table lies between 1 and the number of non-missing reviews and is
\* the number of reviews assigned the label; a review with no pattern match
\* and no qualifying bigram is assigned nothing, and the table is the one
\* obtained without that review
C10_OncePerReview ==
    Extracted =>
        /\ Len(assigned) = Len(Reviews)
        /\ \A k \in 1..Len(assigned) : \A L \in Range(assigned[k]) :
              CountOf(assigned[k], L) = 1
        /\ \A L \in Labels(features) :
              /\ 1 <= CountIn(features, L)
              /\ CountIn(features, L) <= Len(Reviews)
              /\ CountIn(features, L) =
                     Cardinality({k \in 1..Len(assigned) : L \in Range(assigned[k])})
        /\ \A k \in 1..Len(Reviews) :
              NothingToExtractOf[Reviews[k]] =>
                  /\ assigned[k] = <<>>
                  /\ features = extract_features_from_reviews(Without(Reviews, k))

\* a table with a review that has nothing to extract, and another that is
\* assigned a fixed label and a synthetic one
C10_Witness ==
    /\ Extracted
    /\ \E k \in 1..Len(Reviews) : NothingToExtractOf[Reviews[k]]
    /\ \E k \in 1..Len(Reviews) :
          /\ Range(assigned[k]) \cap FixedLabels # {}
          /\ Range(assigned[k]) \ FixedLabels # {}
    /\ \E L \in Labels(features) : CountIn(features, L) >= 2

====
